---------------------------- MODULE Spec2Model ----------------------------
(***************************************************************************)
(* Model of rotary_encoder.py: the quadrature decoder (RotaryEncoder), the *)
(* volume controller (Volume) with the amixer backend it drives, and the   *)
(* producer/consumer pipeline of EventWrapper and the __main__ loop.       *)
(*                                                                         *)
(* Threads: RPi.GPIO runs the edge callbacks one at a time on its callback *)
(* thread; the __main__ loop runs on the main thread.  queue.Queue and     *)
(* threading.Event are thread-safe, so each put/get/empty/set/clear/wait   *)
(* is one atomic step; everything else a thread does between two such     *)
(* steps touches only data of its own thread.                              *)
(*                                                                         *)
(* The amixer backend is modelled as a control holding an integer          *)
(* percentage 0..100 and a playback switch that prints a well-formed       *)
(* status line.  Every command succeeds (exit status 0) except in          *)
(* SpecProcess, which adds the button callback, a failing command and      *)
(* SIGINT.                                                                 *)
(***************************************************************************)
EXTENDS Integers, Sequences, FiniteSets

(***************************************************************************)
(* Settings (module-level constants of the script).                        *)
(***************************************************************************)
PM_GPIO_A == 10
PM_GPIO_B == 11
VOLUME_MIN == 60
VOLUME_MAX == 96
VOLUME_INCREMENT == 1

\* self._last_gpio = None: no pin number.
None == 0

\* The range of an amixer percentage.
MIXER_MIN == 0
MIXER_MAX == 100

(***************************************************************************)
(* Bounds of the model.                                                    *)
(***************************************************************************)
\* Rotation events pushed in one run.
MaxPush == 3
\* Detent cycles the knob of SpecDetent turns through.
MaxCycles == 3
\* Consecutive toggle() calls in one run of SpecVolume.
MaxToggles == 3
\* Button callbacks in one run of SpecProcess.
MaxPress == 2

VARIABLES
    \* RotaryEncoder
    _lev_a, _lev_b, _last_gpio,
    \* EventWrapper: queue.Queue, threading.Event
    _queue, _event,
    \* main thread position, callback thread position
    pc, cb,
    \* Volume
    _volume, _last_volume, _is_muted, is_muted,
    \* amixer control
    mixer_pct, mixer_muted,
    \* observers: commands the latest Volume operation issued, that operation,
    \* events pushed, operations the dispatch loop applied, the latest edge
    \* notification, lines that have fired, the knob of SpecDetent, the
    \* current run of toggle() calls
    cmds, lastOp, pushed, applied, lastEdge, fired, cycles, phase,
    toggleRun, preToggle,
    \* observers: the volume and the mixer's switch from before the latest
    \* Volume operation; the lines whose notifications were accepted (not
    \* debounced) since the latest rotation event
    before, accepted,
    \* the process: its exit status ({} while it runs), whether the GPIO event
    \* registrations were removed, whether an amixer command failed, whether
    \* SIGINT was delivered, button callbacks run, toggle() calls made by them
    exit_status, released, failed, sigint, presses, toggleCalls

decoderVars == <<_lev_a, _lev_b, _last_gpio>>
pipeVars == <<_queue, _event>>
volumeVars == <<_volume, _last_volume, _is_muted, is_muted, mixer_pct, mixer_muted>>
volumeObs == <<cmds, lastOp, toggleRun, preToggle, before>>
edgeObs == <<lastEdge, fired, accepted>>
knobVars == <<cycles, phase>>
procVars == <<exit_status, released, failed, sigint, presses, toggleCalls>>
vars == <<_lev_a, _lev_b, _last_gpio, _queue, _event, pc, cb,
          _volume, _last_volume, _is_muted, is_muted, mixer_pct, mixer_muted,
          cmds, lastOp, pushed, applied, lastEdge, fired, cycles, phase,
          toggleRun, preToggle, before, accepted,
          exit_status, released, failed, sigint, presses, toggleCalls>>

(***************************************************************************)
(* Volume and the amixer backend.  A Volume operation runs on one thread   *)
(* from call to return; it is written as a function on the record of the   *)
(* Volume object's fields and the mixer control.                           *)
(***************************************************************************)
\* The Volume object, the mixer control and the commands issued so far.
Self ==
    [_volume |-> _volume, _last_volume |-> _last_volume,
     _is_muted |-> _is_muted, is_muted |-> is_muted,
     mixer_pct |-> mixer_pct, mixer_muted |-> mixer_muted, cmds |-> <<>>]

\* Volume._constrain
_constrain(val) ==
    IF val < VOLUME_MIN THEN VOLUME_MIN
    ELSE IF val > VOLUME_MAX THEN VOLUME_MAX
    ELSE val

\* What amixer makes of a requested percentage: it stays in the control's range.
MixerRange(p) ==
    IF p < MIXER_MIN THEN MIXER_MIN
    ELSE IF p > MIXER_MAX THEN MIXER_MAX
    ELSE p

\* The last line amixer prints: "... [NN%] ... [on|off]".
StatusLine(s) ==
    [pct |-> s.mixer_pct, switch |-> IF s.mixer_muted THEN "off" ELSE "on"]

\* Volume._amixer(cmd) with exit status 0: the command acts on the control.
\* cmd.switch is "mute", "unmute" or "keep"; cmd.level is {} or {percentage}.
_amixer(s, cmd) ==
    [s EXCEPT
       !.mixer_muted = IF cmd.switch = "mute" THEN TRUE
                       ELSE IF cmd.switch = "unmute" THEN FALSE
                       ELSE @,
       !.mixer_pct = IF cmd.level = {} THEN @
                     ELSE MixerRange(CHOOSE p \in cmd.level : TRUE),
       !.cmds = Append(@, cmd)]

\* Volume._sync(output): the last bracket pair gives the switch, the first
\* the percentage.  The mute flag is stored in self.is_muted.
_sync(s, output) ==
    [s EXCEPT !.is_muted = (output.switch = "off"),
              !._volume = output.pct]

\* "get 'Master'"
GetCommand == [switch |-> "keep", level |-> {}]

\* "set 'Master' mute" / "set 'Master' unmute"
SwitchCommand(sw) == [switch |-> sw, level |-> {}]

\* The percentage _set_volume formats into "set 'Master' unmute {}%".
SetPercentage(val) == val

\* The level set without the unmute.
SetCommandKeep(val) == [switch |-> "keep", level |-> {SetPercentage(val)}]

\* "set 'Master' unmute {val}%"
SetCommand(val) == [switch |-> "unmute", level |-> {SetPercentage(val)}]

\* Volume._set_volume(val)
_set_volume(s, val) ==
    LET s1 == [s EXCEPT !._volume = _constrain(val)]
        s2 == _amixer(s1, SetCommand(val))
    IN  _sync(s2, StatusLine(s2))

\* Volume.up
up(s) == _set_volume(s, s._volume + VOLUME_INCREMENT)

\* Volume.down
down(s) == _set_volume(s, s._volume - VOLUME_INCREMENT)

\* toggle() keeping the volume of an earlier mute.
SavedVolumeStale(s) == s._last_volume

\* The volume toggle() remembers before muting.
SavedVolume(s) == s._volume

\* Volume.toggle
toggle(s) ==
    LET s1 == IF s._is_muted THEN s
              ELSE [s EXCEPT !._last_volume = SavedVolume(s)]
        s2 == _amixer(s1, SwitchCommand(IF s._is_muted THEN "unmute" ELSE "mute"))
        s3 == _sync(s2, StatusLine(s2))
    IN  IF ~ s3._is_muted THEN _set_volume(s3, s3._last_volume) ELSE s3

\* Volume.__init__ without its closing _sync().
VolumeInitNoSync(p, m) ==
    [_volume |-> VOLUME_MIN, _last_volume |-> VOLUME_MIN,
     _is_muted |-> FALSE, is_muted |-> FALSE,
     mixer_pct |-> p, mixer_muted |-> m, cmds |-> <<>>]

\* Volume.__init__ against a control at percentage p, muted or not.
VolumeInit(p, m) ==
    LET s0 == [_volume |-> VOLUME_MIN, _last_volume |-> VOLUME_MIN,
               _is_muted |-> FALSE, is_muted |-> FALSE,
               mixer_pct |-> p, mixer_muted |-> m, cmds |-> <<>>]
        s1 == _amixer(s0, GetCommand)
    IN  _sync(s1, StatusLine(s1))

\* The fields of s become the next state of the Volume object and the mixer.
Becomes(s) ==
    /\ _volume' = s._volume
    /\ _last_volume' = s._last_volume
    /\ _is_muted' = s._is_muted
    /\ is_muted' = s.is_muted
    /\ mixer_pct' = s.mixer_pct
    /\ mixer_muted' = s.mixer_muted
    /\ cmds' = s.cmds

\* preToggle outside a run of toggle() calls.
NoRun == [volume |-> VOLUME_MIN, muted |-> FALSE]

\* A Volume operation op has run from call to return and left s.  toggleRun
\* counts the toggle() calls made since any other operation, preToggle holds the
\* volume and the mixer's switch from before the first of them.
Ran(op, s) ==
    /\ Becomes(s)
    /\ lastOp' = op
    /\ toggleRun' = IF op = "toggle" THEN toggleRun + 1 ELSE 0
    /\ preToggle' = IF op # "toggle" THEN NoRun
                    ELSE IF toggleRun = 0
                         THEN [volume |-> _volume, muted |-> mixer_muted]
                         ELSE preToggle
    /\ before' = [volume |-> _volume, muted |-> mixer_muted]

(***************************************************************************)
(* RotaryEncoder: the rotation callback, run on the GPIO callback thread.  *)
(***************************************************************************)
\* The level of A stored only below the debounce return.
LevAAfterDebounce(channel, level) ==
    IF channel = PM_GPIO_A /\ channel # _last_gpio THEN level ELSE _lev_a

\* if channel == self._gpio_a: self._lev_a = level
LevA(channel, level) == IF channel = PM_GPIO_A THEN level ELSE _lev_a

\* The level of B stored only below the debounce return.
LevBAfterDebounce(channel, level) ==
    IF channel # PM_GPIO_A /\ channel # _last_gpio THEN level ELSE _lev_b

\* else: self._lev_b = level
LevB(channel, level) == IF channel = PM_GPIO_A THEN _lev_b ELSE level

\* No debounce.
NoDebounce(channel) == FALSE

\* if channel == self._last_gpio: return
Debounce(channel) == channel = _last_gpio

\* Every rising edge emits, whatever the other line's level.
RotationAnyRise(channel, level, la, lb) ==
    IF level = 0 THEN <<>>
    ELSE IF channel = PM_GPIO_A THEN <<1>> ELSE <<-1>>

\* The deltas the callback is called with once the levels la, lb are stored.
Rotation(channel, level, la, lb) ==
    IF channel = PM_GPIO_A /\ level = 1
    THEN (IF lb = 1 THEN <<1>> ELSE <<>>)
    ELSE IF channel = PM_GPIO_B /\ level = 1
         THEN (IF la = 1 THEN <<-1>> ELSE <<>>)
         ELSE <<>>

\* lastEdge before any notification.
NoEdge ==
    [channel |-> None, level |-> 0, lev_a |-> 0, lev_b |-> 0,
     last_gpio |-> None, emitted |-> <<>>]

\* RotaryEncoder._gpio_input_rotation_callback(channel), GPIO.input(channel)
\* returning level, up to and including the queue.put of _on_turn.  The
\* callback thread then stands before _on_turn's event.set (cb = "set").
_gpio_input_rotation_callback(channel, level) ==
    LET la == LevA(channel, level)
        lb == LevB(channel, level)
        emitted == IF Debounce(channel) THEN <<>>
                   ELSE Rotation(channel, level, la, lb)
    IN  /\ cb = "idle"
        /\ _lev_a' = la
        /\ _lev_b' = lb
        /\ _last_gpio' = IF Debounce(channel) THEN _last_gpio ELSE channel
        /\ _queue' = _queue \o emitted
        /\ pushed' = pushed \o emitted
        /\ cb' = IF emitted = <<>> THEN "idle" ELSE "set"
        /\ lastEdge' = [channel |-> channel, level |-> level,
                        lev_a |-> _lev_a, lev_b |-> _lev_b,
                        last_gpio |-> _last_gpio, emitted |-> emitted]
        /\ fired' = fired \cup {channel}
        /\ accepted' = IF Debounce(channel) THEN accepted
                       ELSE IF emitted # <<>> THEN {}
                       ELSE accepted \cup {channel}
        /\ UNCHANGED <<_event, pc, applied, volumeVars, volumeObs, procVars>>

\* An edge notification on either encoder line, reading either level.
Edge ==
    /\ Len(pushed) < MaxPush
    /\ \E channel \in {PM_GPIO_A, PM_GPIO_B}, level \in {0, 1} :
           _gpio_input_rotation_callback(channel, level)
    /\ UNCHANGED knobVars

\* EventWrapper._on_turn, second statement: self._event.set()
EventSet ==
    /\ cb = "set"
    /\ _event' = TRUE
    /\ cb' = "idle"
    /\ UNCHANGED <<decoderVars, _queue, pc, pushed, applied, volumeVars,
                   volumeObs, edgeObs, knobVars, procVars>>

(***************************************************************************)
(* The knob of SpecDetent: a correctly wired encoder turned through        *)
(* complete, bounce-free detent cycles; each edge is notified in order and *)
(* GPIO.input reads the level the edge set.                                *)
(***************************************************************************)
\* The k-th edge (1..4) of a cycle in direction dir (1 clockwise: B rises,
\* A rises, B falls, A falls; -1 counter-clockwise: A rises, B rises, A falls,
\* B falls).
CycleChannel(dir, k) ==
    IF (dir = 1) = (k \in {1, 3}) THEN PM_GPIO_B ELSE PM_GPIO_A

CycleLevel(k) == IF k \in {1, 2} THEN 1 ELSE 0

KnobBegin ==
    /\ phase = 0
    /\ Len(cycles) < MaxCycles
    /\ \E dir \in {1, -1} :
          /\ cycles' = Append(cycles, dir)
          /\ _gpio_input_rotation_callback(CycleChannel(dir, 1), CycleLevel(1))
    /\ phase' = 1

KnobContinue ==
    /\ phase > 0
    /\ _gpio_input_rotation_callback(CycleChannel(cycles[Len(cycles)], phase + 1),
                                     CycleLevel(phase + 1))
    /\ phase' = (phase + 1) % 4
    /\ cycles' = cycles

(***************************************************************************)
(* The __main__ loop on the main thread: wait_event, consume_queue,        *)
(* clear_event, for ever.                                                  *)
(***************************************************************************)
\* The operation consume_queue calls for a dequeued delta.
Dispatch(delta) == IF delta = 1 THEN "up" ELSE "down"

\* A LIFO queue's get().
QueueGetLast(q) == [item |-> q[Len(q)], rest |-> SubSeq(q, 1, Len(q) - 1)]

\* queue.get(): the item taken, and what stays queued.
QueueGet(q) == [item |-> Head(q), rest |-> Tail(q)]

\* wait_event returns because the event is set.
WaitSignalled ==
    /\ pc = "wait"
    /\ _event
    /\ pc' = "consume"
    /\ UNCHANGED <<decoderVars, pipeVars, cb, pushed, applied, volumeVars,
                   volumeObs, edgeObs, knobVars, procVars>>

\* wait_event without a timeout: only the event ends it.
WaitNoTimeout ==
    /\ pc = "wait"
    /\ FALSE
    /\ UNCHANGED vars

\* wait_event returns because its 1200 s timeout elapsed.
WaitTimeout ==
    /\ pc = "wait"
    /\ ~ _event
    /\ pc' = "consume"
    /\ UNCHANGED <<decoderVars, pipeVars, cb, pushed, applied, volumeVars,
                   volumeObs, edgeObs, knobVars, procVars>>

\* consume_queue dequeuing before it tests for emptiness.
QueueEmptyUntested ==
    /\ pc = "consume"
    /\ pc' = "get"
    /\ UNCHANGED <<decoderVars, pipeVars, cb, pushed, applied, volumeVars,
                   volumeObs, edgeObs, knobVars, procVars>>

\* consume_queue: while not self._queue.empty()
QueueEmpty ==
    /\ pc = "consume"
    /\ pc' = IF _queue = <<>> THEN "clear" ELSE "get"
    /\ UNCHANGED <<decoderVars, pipeVars, cb, pushed, applied, volumeVars,
                   volumeObs, edgeObs, knobVars, procVars>>

\* consume_queue: if self._queue.get() == 1: up() else: down()
\* (get() blocks while the queue is empty).
ConsumeOne ==
    /\ pc = "get"
    /\ _queue # <<>>
    /\ LET got == QueueGet(_queue)
           op == Dispatch(got.item)
       IN  /\ _queue' = got.rest
           /\ applied' = Append(applied, op)
           /\ Ran(op, IF op = "up" THEN up(Self) ELSE down(Self))
    /\ pc' = "consume"
    /\ UNCHANGED <<decoderVars, _event, cb, pushed, edgeObs, knobVars, procVars>>

\* clear_event
ClearEvent ==
    /\ pc = "clear"
    /\ _event' = FALSE
    /\ pc' = "wait"
    /\ UNCHANGED <<decoderVars, _queue, cb, pushed, applied, volumeVars,
                   volumeObs, edgeObs, knobVars, procVars>>

MainThread == WaitSignalled \/ WaitTimeout \/ QueueEmpty \/ ConsumeOne \/ ClearEvent

(***************************************************************************)
(* The Volume API called directly (SpecVolume).                            *)
(***************************************************************************)
CallUp ==
    /\ Ran("up", up(Self))
    /\ UNCHANGED <<decoderVars, pipeVars, pc, cb, pushed, applied, edgeObs, knobVars, procVars>>

CallDown ==
    /\ Ran("down", down(Self))
    /\ UNCHANGED <<decoderVars, pipeVars, pc, cb, pushed, applied, edgeObs, knobVars, procVars>>

CallToggle ==
    /\ toggleRun < MaxToggles
    /\ Ran("toggle", toggle(Self))
    /\ UNCHANGED <<decoderVars, pipeVars, pc, cb, pushed, applied, edgeObs, knobVars, procVars>>

(***************************************************************************)
(* The button callback, a failing amixer command and SIGINT (SpecProcess). *)
(***************************************************************************)
\* Positional arguments _gpio_input_button_callback passes to
\* self._button_callback: GPIO.input(channel).
ButtonCallbackArgs == 1

\* Parameters of _on_press_toggle besides self.
OnPressToggleParams == 0

\* Positional arguments Python passes to a handler installed with
\* signal.signal: signum and frame.
SignalHandlerArgs == 2

\* Parameters of _on_exit besides self.
OnExitParams == 0

\* sys.exit(0) in _amixer, on a non-zero exit status of the command.
FailureExitStatus == 0

\* sys.exit(0) in _on_exit.
CleanExitStatus == 0

\* The exit status of the interpreter when an exception leaves the main
\* thread uncaught.
UncaughtExitStatus == 1

\* A call of a bound method succeeds when the positional arguments match its
\* parameters (none of these methods has defaults or *args); otherwise it
\* raises TypeError before the body runs.
Callable(args, params) == args = params

\* RotaryEncoder._gpio_input_button_callback, run on the GPIO callback
\* thread for a falling edge of the button.  When the call of
\* self._button_callback raises, the callback thread prints the exception and
\* goes on.
_gpio_input_button_callback ==
    /\ cb = "idle"
    /\ presses < MaxPress
    /\ presses' = presses + 1
    /\ IF Callable(ButtonCallbackArgs, OnPressToggleParams)
       THEN \* _on_press_toggle: self._volume.toggle(); self._event.set()
            /\ Ran("toggle", toggle(Self))
            /\ toggleCalls' = toggleCalls + 1
            /\ _event' = TRUE
       ELSE UNCHANGED <<volumeVars, volumeObs, toggleCalls, _event>>
    /\ UNCHANGED <<decoderVars, _queue, pc, cb, pushed, applied, edgeObs,
                   knobVars, exit_status, released, failed, sigint>>

\* consume_queue's up()/down() whose amixer command ends with a non-zero
\* exit status: _set_volume has stored the clamped value, _amixer calls
\* sys.exit(0), SystemExit leaves the main thread and the process ends.  The
\* mixer is taken not to have applied the failed command.  Whether the
\* interpreter's shutdown runs RotaryEncoder.__del__ is not determined.
ConsumeFail ==
    /\ pc = "get"
    /\ _queue # <<>>
    /\ LET got == QueueGet(_queue)
           op == Dispatch(got.item)
           val == IF op = "up" THEN _volume + VOLUME_INCREMENT
                  ELSE _volume - VOLUME_INCREMENT
       IN  /\ _queue' = got.rest
           /\ applied' = Append(applied, op)
           /\ _volume' = _constrain(val)
    /\ failed' = TRUE
    /\ exit_status' = {FailureExitStatus}
    /\ \E r \in BOOLEAN : released' = r
    /\ pc' = "exited"
    /\ cb' = "dead"
    /\ UNCHANGED <<decoderVars, _event, pushed, _last_volume, _is_muted,
                   is_muted, mixer_pct, mixer_muted, volumeObs, edgeObs,
                   knobVars, sigint, presses, toggleCalls>>

\* SIGINT: Python calls the installed handler, the bound method _on_exit,
\* with (signum, frame) on the main thread, wherever the main loop is.
\* _on_exit's body releases the registrations (self._encoder.__del__()) and
\* calls sys.exit(0); a TypeError raised by the call leaves the main thread
\* uncaught and ends the process, and whether the interpreter's shutdown then
\* runs RotaryEncoder.__del__ is not determined.
SigInt ==
    /\ exit_status = {}
    /\ ~ sigint
    /\ sigint' = TRUE
    /\ IF Callable(SignalHandlerArgs, OnExitParams)
       THEN /\ released' = TRUE
            /\ exit_status' = {CleanExitStatus}
       ELSE /\ \E r \in BOOLEAN : released' = r
            /\ exit_status' = {UncaughtExitStatus}
    /\ pc' = "exited"
    /\ cb' = "dead"
    /\ UNCHANGED <<decoderVars, pipeVars, pushed, applied, volumeVars,
                   volumeObs, edgeObs, knobVars, failed, presses, toggleCalls>>

(***************************************************************************)
(* Specifications.                                                         *)
(***************************************************************************)
\* The state once EventWrapper() is constructed, the mixer control having
\* been at percentage p with switch state m.
Constructed(p, m) ==
    LET s == VolumeInit(p, m)
    IN  /\ _lev_a = 0 /\ _lev_b = 0 /\ _last_gpio = None
        /\ _queue = <<>> /\ _event = FALSE
        /\ pc = "wait" /\ cb = "idle"
        /\ _volume = s._volume /\ _last_volume = s._last_volume
        /\ _is_muted = s._is_muted /\ is_muted = s.is_muted
        /\ mixer_pct = s.mixer_pct /\ mixer_muted = s.mixer_muted
        /\ cmds = s.cmds /\ lastOp = "init"
        /\ pushed = <<>> /\ applied = <<>>
        /\ lastEdge = NoEdge /\ fired = {}
        /\ cycles = <<>> /\ phase = 0
        /\ toggleRun = 0 /\ preToggle = NoRun
        /\ before = NoRun /\ accepted = {}
        /\ exit_status = {} /\ released = FALSE /\ failed = FALSE
        /\ sigint = FALSE /\ presses = 0 /\ toggleCalls = 0

\* Mixer percentages the pipeline specifications start from.
InitLevels == {VOLUME_MIN, VOLUME_MAX}

Init == \E p \in InitLevels, m \in BOOLEAN : Constructed(p, m)

InitVolume == \E p \in MIXER_MIN..MIXER_MAX, m \in BOOLEAN : Constructed(p, m)

\* The whole program: edges in any order and of any level, and the main loop.
Next == Edge \/ EventSet \/ MainThread

Spec == Init /\ [][Next]_vars

\* The liveness check starts from one mixer state: the main loop's progress
\* does not depend on the volume.
InitLive == Constructed(VOLUME_MIN, FALSE)

\* The main thread keeps running.
LiveSpec == InitLive /\ [][Next]_vars /\ WF_vars(MainThread) /\ WF_vars(EventSet)

\* The knob turned through complete detent cycles.
NextDetent == KnobBegin \/ KnobContinue \/ EventSet \/ MainThread

SpecDetent == Init /\ [][NextDetent]_vars

\* The program with its button, commands that may fail, and SIGINT.
NextProcess ==
    \/ Edge \/ EventSet \/ MainThread
    \/ _gpio_input_button_callback \/ ConsumeFail \/ SigInt

SpecProcess == Init /\ [][NextProcess]_vars

\* The Volume object alone, its operations called one after another.
NextVolume == CallUp \/ CallDown \/ CallToggle

SpecVolume == InitVolume /\ [][NextVolume]_vars


(***************************************************************************)
(* Properties.                                                             *)
(***************************************************************************)
\* The deltas of a sequence as the operations the dispatch loop calls for them.
Ops(deltas) == [i \in 1..Len(deltas) |-> Dispatch(deltas[i])]

\* C1: after every up() or down(), the one command sent to the backend is a
\* set command whose percentage lies in [VOLUME_MIN, VOLUME_MAX] (it is the
\* clamped value, never the raw requested one).
C1_SentWithinBounds ==
    lastOp \in {"up", "down"} =>
        /\ Len(cmds) = 1
        /\ cmds[1].level # {}
        /\ \A p \in cmds[1].level : VOLUME_MIN <= p /\ p <= VOLUME_MAX

\* C2: after construction and after every Volume operation, the local volume
\* lies in [VOLUME_MIN, VOLUME_MAX].
C2_LevelWithinBounds == VOLUME_MIN <= _volume /\ _volume <= VOLUME_MAX

\* C3: the latest edge notification emitted +1 exactly when it was a rising
\* edge of A with B stored high and was not debounced, -1 exactly when it was
\* a rising edge of B with A stored high and was not debounced, and nothing in
\* every other case; never more than one event.
C3_EmitRule ==
    lastEdge.channel # None =>
        LET debounced == lastEdge.channel = lastEdge.last_gpio
            plus == /\ lastEdge.channel = PM_GPIO_A /\ lastEdge.level = 1
                    /\ lastEdge.lev_b = 1 /\ ~ debounced
            minus == /\ lastEdge.channel = PM_GPIO_B /\ lastEdge.level = 1
                     /\ lastEdge.lev_a = 1 /\ ~ debounced
        IN  /\ (lastEdge.emitted = <<1>>) <=> plus
            /\ (lastEdge.emitted = <<-1>>) <=> minus
            /\ (~ plus /\ ~ minus) => lastEdge.emitted = <<>>
            /\ Len(lastEdge.emitted) <= 1

\* C3 witness: A rose while B was stored high, undebounced, and +1 was emitted.
C3_Witness ==
    /\ lastEdge.channel = PM_GPIO_A /\ lastEdge.level = 1
    /\ lastEdge.lev_b = 1 /\ lastEdge.last_gpio = PM_GPIO_B
    /\ lastEdge.emitted = <<1>>

\* C4: turning the knob through complete bounce-free detent cycles from idle,
\* the events emitted are exactly the directions of the cycles, in order: a
\* cycle's event is emitted at its second edge.
C4_OneEventPerCycle ==
    pushed = IF phase = 1 THEN SubSeq(cycles, 1, Len(cycles) - 1) ELSE cycles

\* C4 witness: a clockwise cycle then a counter-clockwise one, both complete.
C4_Witness ==
    /\ phase = 0 /\ Len(cycles) >= 2
    /\ cycles[1] = 1 /\ cycles[2] = -1
    /\ pushed = cycles

\* C5: as long as only one of the two lines has ever fired, no rotation event
\* has been produced.
C5_SingleLineSilent == Cardinality(fired) <= 1 => pushed = <<>>

\* C5 witness: only A has fired, more than once, and its latest (debounced)
\* notification read a high level.
C5_Witness ==
    /\ fired = {PM_GPIO_A}
    /\ lastEdge.last_gpio = PM_GPIO_A /\ lastEdge.level = 1 /\ _lev_a = 1

\* C6: the operations the dispatch loop has called are a prefix of the pushed
\* events in push order, +1 as up and -1 as down.
C6_Fifo ==
    /\ Len(applied) <= Len(pushed)
    /\ \A i \in 1..Len(applied) :
           applied[i] = IF pushed[i] = 1 THEN "up" ELSE "down"

\* C6 witness: an up then a down applied while a later event is still pending.
C6_Witness ==
    /\ Len(applied) = 2 /\ applied[1] = "up" /\ applied[2] = "down"
    /\ Len(pushed) = 3

\* C7: the pushed events are always exactly those applied followed by those
\* still queued (none dropped, none applied twice), and with the main thread
\* running every pushed event is eventually applied.
C7_ExactlyOnce ==
    /\ [](Ops(pushed) = applied \o Ops(_queue))
    /\ \A n \in 1..MaxPush : (Len(pushed) >= n) ~> (Len(applied) >= n)

\* C7 witness: every pushed event applied, the loop back in wait_event with
\* the event cleared.
C7_Witness ==
    /\ Len(pushed) >= 2 /\ Len(applied) = Len(pushed)
    /\ pc = "wait" /\ ~ _event /\ cb = "idle"

\* C8: whenever the main thread is in (or about to enter) wait_event, no push
\* is in progress and the queue is non-empty, the event is set.
C8_NoLostWakeup ==
    (pc = "wait" /\ cb = "idle" /\ _queue # <<>>) => _event

\* C9: in a run of toggle() calls begun with the backend unmuted, the backend
\* is muted after the 1st, 3rd, ... call and unmuted after the 2nd, 4th, ...
C9_ToggleAlternates ==
    (toggleRun > 0 /\ ~ preToggle.muted) =>
        (mixer_muted <=> toggleRun % 2 = 1)

\* C10: after toggle() called twice in a row, the local volume and the
\* backend's percentage equal the local volume from before the first call.
C10_ToggleRoundTrip ==
    toggleRun = 2 =>
        /\ _volume = preToggle.volume
        /\ mixer_pct = preToggle.volume

\* C10 witness: two toggles in a row from a volume other than the initial
\* _last_volume.
C10_Witness ==
    /\ toggleRun = 2 /\ lastOp = "toggle"
    /\ preToggle.volume = VOLUME_MIN + 2 * VOLUME_INCREMENT
    /\ _last_volume = preToggle.volume

\* C15: after every completed _sync (SpecVolume's states are all such), the
\* mute state toggle() consults, self._is_muted, equals the mixer's mute flag.
C15_MuteStateSynced == _is_muted = mixer_muted

\* C16: after every up() or down(), one command was sent, it carries an
\* explicit unmute and a level, the mixer is unmuted and the local volume
\* equals the mixer's percentage.
C16_StepUnmutesAndSyncs ==
    lastOp \in {"up", "down"} =>
        /\ Len(cmds) = 1
        /\ cmds[1].switch = "unmute" /\ cmds[1].level # {}
        /\ ~ mixer_muted
        /\ _volume = mixer_pct

\* C16 witness: up() from 70 with the mixer muted before the call.
C16_Witness ==
    /\ lastOp = "up" /\ before.muted
    /\ before.volume = 70 /\ _volume = 71

\* C17: a notification whose line equals _last_gpio stores the level of its
\* line and changes nothing else of the decoder or the queue; any other
\* notification sets _last_gpio to its line.
C17_DebounceFrame ==
    [][lastEdge' # lastEdge =>
         IF lastEdge'.channel = _last_gpio
         THEN /\ lastEdge'.emitted = <<>>
              /\ _last_gpio' = _last_gpio
              /\ _queue' = _queue /\ pushed' = pushed /\ _event' = _event
              /\ IF lastEdge'.channel = PM_GPIO_A
                 THEN _lev_a' = lastEdge'.level /\ _lev_b' = _lev_b
                 ELSE _lev_b' = lastEdge'.level /\ _lev_a' = _lev_a
         ELSE _last_gpio' = lastEdge'.channel]_vars

\* C17 witness: B, the last accepted line, reported a rise while A was high
\* (which would emit -1 if accepted); its level is stored.
C17_Witness ==
    /\ lastEdge.channel = PM_GPIO_B /\ lastEdge.last_gpio = PM_GPIO_B
    /\ lastEdge.lev_b = 0 /\ lastEdge.level = 1 /\ lastEdge.lev_a = 1
    /\ _lev_b = 1 /\ lastEdge.emitted = <<>>

\* C18: consume_queue dequeues only from a non-empty queue (get() never
\* blocks), returns only on seeing the queue empty, and wait_event leaves the
\* queue as it is.
C18_ConsumeNeverBlocks ==
    /\ [](pc = "get" => _queue # <<>>)
    /\ [][(pc = "consume" /\ pc' = "clear") => _queue = <<>>]_vars
    /\ [][(pc = "wait" /\ pc' # "wait") => _queue' = _queue]_vars

\* C18 witness: consume_queue has applied two events and returned, and an
\* event pushed since is queued.
C18_Witness ==
    /\ pc = "clear" /\ Len(applied) = 2 /\ Len(_queue) = 1

\* Startup is complete and no Volume operation or edge has been processed.
Started == lastOp = "init" /\ lastEdge = NoEdge

\* C19: at startup the volume is VOLUME_MIN, the mute state false and the
\* queue empty, whatever the mixer holds.
C19_StartsAtMinimum ==
    Started => (_volume = VOLUME_MIN /\ ~ _is_muted /\ _queue = <<>>)

\* C19 amended: at startup the volume is the percentage the mixer holds,
\* the saved volume is VOLUME_MIN, self._is_muted is false (self.is_muted is
\* the mixer's mute flag), the queue empty.
C19_StartsAtMixerLevel ==
    Started =>
        /\ _volume = mixer_pct
        /\ _last_volume = VOLUME_MIN
        /\ ~ _is_muted
        /\ is_muted = mixer_muted
        /\ _queue = <<>>

\* C19 witness: started against a muted mixer at VOLUME_MAX, the main loop
\* already past its first wait_event.
C19_Witness ==
    /\ Started /\ pc = "clear"
    /\ mixer_pct = VOLUME_MAX /\ mixer_muted /\ _volume = VOLUME_MAX

\* C20: after emitting +1 _last_gpio is A, after emitting -1 it is B, and an
\* event of the same sign as the previous one is emitted only after a
\* notification of the other line was accepted since.
C20_NoRepeatWithoutOtherLine ==
    /\ [](lastEdge.emitted = <<1>> => _last_gpio = PM_GPIO_A)
    /\ [](lastEdge.emitted = <<-1>> => _last_gpio = PM_GPIO_B)
    /\ [][\A d \in {1, -1} :
            (pushed # <<>> /\ pushed[Len(pushed)] = d /\ pushed' = Append(pushed, d))
                => (IF d = 1 THEN PM_GPIO_B ELSE PM_GPIO_A) \in accepted]_vars

\* C20 witness: two +1 events in a row, B accepted in between.
C20_Witness ==
    /\ Len(pushed) >= 2 /\ pushed[1] = 1 /\ pushed[2] = 1
    /\ lastEdge.emitted = <<1>> /\ Len(pushed) = 2

\* C11: every run of the button callback has made exactly one toggle() call.
C11_PressToggles == toggleCalls = presses

\* C12: once an amixer command has failed the process has exited with a
\* non-zero status, and exit status 0 comes only from a termination request.
C12_FailureExitsNonZero ==
    /\ failed => (exit_status # {} /\ 0 \notin exit_status)
    /\ 0 \in exit_status => (sigint /\ ~ failed)

\* C13: once SIGINT was delivered the process has exited and the GPIO event
\* registrations are released.
C13_SigIntReleasesAndExits == sigint => (exit_status # {} /\ released)

=============================================================================
